---- MODULE Spec2Model ----
(***************************************************************************)
(* Model of the VeilNet conflux host-integration layer: the three platform *)
(* variants of the conflux object (linux, darwin, windows), the Up.Run     *)
(* command that drives it, and the host state (routing table, firewall     *)
(* rules, IP forwarding) its commands act on.                              *)
(***************************************************************************)
EXTENDS Integers, Sequences, FiniteSets, TLC

VARIABLES
    platform,          \* build variant: "linux", "darwin" or "windows"
    cliPortal,         \* Up.Portal, the flag handed to Start
    veilHost,          \* what anchor.GetVeilHost() answers ("" when unset)
    metric0,           \* metric/hopcount of the host default route before Start
    fwd0,              \* host IP forwarding before Start
    host,              \* host state: routes, forwarding flag, firewall rules
    log,               \* every command executed, in order, with its outcome
    anchor,            \* c.anchor: "nil" or "set"
    anchorCtx,         \* the anchor object: "new", "alive" or "done" (Ctx cancelled)
    device,            \* c.device: "nil", "open" or "closed" (closed is still non-nil)
    portal,            \* c.portal
    gateway,           \* c.gateway
    iface,             \* c.iface
    bypassRoutes,      \* c.bypassRoutes: hostname -> stored address or NoAddr
    ipForwardEnabled,  \* c.ipForwardEnabled
    once,              \* c.once: "idle", "running" or "done"
    pc,                \* position of every goroutine
    loc,               \* locals of the running bypass-route loop
    net,               \* what the resolver and the route-add commands may do
    exitCode,          \* -1 while the process runs, else the exit code
    exitBy,            \* which path ended the process
    relay,             \* buffers of the relay loops and their latest write calls
    routeOut,          \* the text the route listing prints, as lines of pieces
    g                  \* history counters (effects performed), never read by the program

vars == <<platform, cliPortal, veilHost, metric0, fwd0, host, log, anchor,
          anchorCtx, device, portal, gateway, iface, bypassRoutes,
          ipForwardEnabled, once, pc, loc, net, exitCode, exitBy, relay, routeOut, g>>

\* what no action of the lifecycle changes: the environment the program was
\* started in, and the relay buffers, which only the data-path actions follow
envVars == <<platform, cliPortal, veilHost, metric0, fwd0, net, relay, routeOut>>

(***************************************************************************)
(* Bounds of the model                                                      *)
(***************************************************************************)
\* how many of the commands of one handler the environment lets fail
MaxFail == 1
\* how many explicit Stop calls a client of the Conflux interface makes
MaxStopCalls == 1
\* how many addresses one DNS answer holds at most
MaxIps == 2
\* how many calls the interface client makes in the bypass-route specification
MaxApiCalls == 3
\* device.BatchSize(): how many datagrams one batched read returns at most
BatchSize == 2
\* the MTU of the TUN device, scaled down from 1500
Mtu == 2
\* how many lines the route listing prints at most
MaxLines == 3

Platforms == {"linux", "darwin", "windows"}

\* the host's real default route
HostGw == "gw"
HostIf == "eth0"
TUN == "veilnet"
TunIP == "10.1.0.2"
VeilHostAddr == "veil-master"
NoAddr == -1
\* pre-existing metrics of the host default route the model tries
Metrics == {0, 100}


(***************************************************************************)
(* Host commands.  A command is a record; Exec gives the host after the    *)
(* command and whether it succeeded.                                       *)
(***************************************************************************)
Cmd(op, dst, via, dev, m) == [op |-> op, dst |-> dst, via |-> via, dev |-> dev, metric |-> m]

Route(dst, via, dev, m) == [dst |-> dst, via |-> via, dev |-> dev, metric |-> m]

\* routes a delete command selects: unspecified via/dev match anything
Matching(routes, c) ==
    {r \in routes : /\ r.dst = c.dst
                    /\ (c.via = "" \/ r.via = c.via)
                    /\ (c.dev = "" \/ r.dev = c.dev)}

\* the route the kernel removes: the matching route of lowest metric
FirstMatch(routes, c) ==
    CHOOSE r \in Matching(routes, c) : \A q \in Matching(routes, c) : r.metric <= q.metric

\* the interface a route without an explicit device leaves through
DevOf(c) == IF c.dev = "" THEN HostIf ELSE c.dev

Exec(h, c) ==
    CASE c.op = "route-add" ->
           IF \E r \in h.routes : r.dst = c.dst /\ r.metric = c.metric
           THEN [h |-> h, ok |-> FALSE]
           ELSE [h |-> [h EXCEPT !.routes = @ \cup {Route(c.dst, c.via, DevOf(c), c.metric)}],
                 ok |-> TRUE]
      [] c.op = "route-del" ->
           IF Matching(h.routes, c) = {}
           THEN [h |-> h, ok |-> FALSE]
           ELSE [h |-> [h EXCEPT !.routes = @ \ {FirstMatch(h.routes, c)}], ok |-> TRUE]
      [] c.op = "ipt-add" ->
           [h |-> [h EXCEPT !.fw[c.dst] = @ + 1], ok |-> TRUE]
      [] c.op = "ipt-del" ->
           IF h.fw[c.dst] = 0
           THEN [h |-> h, ok |-> FALSE]
           ELSE [h |-> [h EXCEPT !.fw[c.dst] = @ - 1], ok |-> TRUE]
      [] c.op = "sysctl-set" ->
           [h |-> [h EXCEPT !.fwd = (c.metric = 1)], ok |-> TRUE]
      [] c.op = "if-lookup" -> [h |-> h, ok |-> h.tun]
      [] OTHER -> [h |-> h, ok |-> TRUE]

FwRules == {"FORWARD-in", "FORWARD-out", "NAT"}

\* A run of commands: s.h the host, s.log the commands so far, s.n how many
\* commands this handler has issued, s.err whether the handler has returned
\* an error, s.last whether the last command succeeded.
Begin(h, l) == [h |-> h, log |-> l, n |-> 0, err |-> FALSE, last |-> TRUE]

\* Run command c unless the handler already returned; the environment makes
\* the commands whose index is in F fail.  fatal: the code returns on failure.
Step(s, c, F, fatal) ==
    IF s.err THEN s
    ELSE LET r  == IF (s.n + 1) \in F THEN [h |-> s.h, ok |-> FALSE] ELSE Exec(s.h, c)
         IN  [h    |-> r.h,
              log  |-> Append(s.log, [c |-> c, ok |-> r.ok]),
              n    |-> s.n + 1,
              err  |-> fatal /\ ~r.ok,
              last |-> r.ok]

FailSets(n) == {F \in SUBSET (1..n) : Cardinality(F) <= MaxFail}


(***************************************************************************)
(* Bypass routes                                                            *)
(***************************************************************************)
AllHosts == {"stun.cloudflare.com", "turn.cloudflare.com", "guardian.veilnet.org",
             "turn.veilnet.org"}

BypassHosts(p) ==
    IF p = "darwin"
    THEN <<"stun.cloudflare.com", "turn.cloudflare.com", "guardian.veilnet.org",
           "turn.veilnet.org">>
    ELSE <<"stun.cloudflare.com", "turn.cloudflare.com", "guardian.veilnet.org">>

\* The addresses the i-th hostname may resolve to: 10*i is an IPv6 address,
\* 10*i+k (k >= 1) are IPv4 addresses.
Pool(i) == {10 * i + k : k \in 0..MaxIps}
AllAddrs == UNION {Pool(i) : i \in 1..4}

\* ip.To4(): nil for an address that is not IPv4
To4(ip) == IF ip % 10 = 0 THEN NoAddr ELSE ip

SeqsNoRep(S, n) ==
    {q \in UNION {[1..k -> S] : k \in 0..n} : \A a, b \in DOMAIN q : a # b => q[a] # q[b]}

\* The IPv4 addresses of one hostname are interchangeable, so an answer is
\* taken up to their renaming: the k-th IPv4 address of the answer is 10*i+k.
V4Before(q, a) == Cardinality({b \in 1..a : To4(q[b]) # NoAddr})
Canonical(q, i) == \A a \in DOMAIN q : To4(q[a]) # NoAddr => q[a] = 10 * i + V4Before(q, a)

\* what net.LookupIP may answer for the i-th hostname
DnsAnswers(i) ==
    IF net = "reliable"
    THEN {[err |-> FALSE, ips |-> <<10 * i + 1>>]}
    ELSE IF net = "single"
    THEN {[err |-> TRUE, ips |-> <<>>]}
         \cup {[err |-> FALSE, ips |-> <<a>>] : a \in {10 * i, 10 * i + 1}}
    ELSE {[err |-> TRUE, ips |-> <<>>]}
         \cup {[err |-> FALSE, ips |-> q] : q \in {r \in SeqsNoRep(Pool(i), MaxIps) : Canonical(r, i)}}

\* which of the route-add commands of one lookup the environment makes fail,
\* when it has made `used` commands of this call fail already
AddFailSets(ips, used) ==
    IF net = "reliable" THEN {{}}
    ELSE {F \in SUBSET {k \in DOMAIN ips : To4(ips[k]) # NoAddr} :
             Cardinality(F) + used <= MaxFail}

\* the inner loop of AddBypassRoutes over the addresses of one hostname;
\* st = [bypass, br, g]: the host's bypass routes, c.bypassRoutes, the history
RECURSIVE AddIps(_, _, _, _, _, _)
AddIps(st, h, ips, k, F, gw) ==
    IF k > Len(ips) THEN st
    ELSE IF To4(ips[k]) = NoAddr THEN AddIps(st, h, ips, k + 1, F, gw)
    ELSE LET dest == To4(ips[k])
             ok   == k \notin F /\ gw # "" /\ dest \notin st.bypass
         IN  AddIps([bypass |-> IF ok THEN st.bypass \cup {dest} ELSE st.bypass,
                     br     |-> [st.br EXCEPT ![h] = dest],
                     g      |-> [st.g EXCEPT !.addIssued = @ \cup {dest},
                                             !.addOk = IF ok THEN @ \cup {dest} ELSE @,
                                             !.addFailed = @ \/ ~ok,
                                             !.gwUsed = @ \cup {gw}]],
                    h, ips, k + 1, F, gw)

(***************************************************************************)
(* ConfigHost and CleanHostConfiguraions, per platform.  Each gives the    *)
(* run of commands it issued (see Step); ConfigHost also gives the value   *)
(* it leaves in c.ipForwardEnabled.                                        *)
(***************************************************************************)
VeilRouteNoGateway(s, op, vh, gw, dev, F) ==
    IF vh # "" THEN Step(s, Cmd(op, vh, "", dev, 0), F, FALSE) ELSE s

\* the route to the control-plane host, added or deleted via c.gateway, when
\* the anchor reports one; its outcome is not looked at
VeilRoute(s, op, vh, gw, dev, F) ==
    IF vh # "" THEN Step(s, Cmd(op, vh, gw, dev, 0), F, FALSE) ELSE s

LinuxPortalApplyAlwaysEnables(s3, F, ifc, ipf) ==
    LET s4 == Step(s3, Cmd("ipt-add", "FORWARD-in", "", TUN, 0), F, TRUE)
        s5 == Step(s4, Cmd("ipt-add", "FORWARD-out", "", TUN, 0), F, TRUE)
        s6 == Step(s5, Cmd("ipt-add", "NAT", "", ifc, 0), F, TRUE)
        s7 == Step(s6, Cmd("sysctl-read", "ip_forward", "", "", 0), F, TRUE)
        rd == ~s7.err
        en == IF rd THEN s7.h.fwd ELSE ipf
        s8 == IF rd
              THEN Step(s7, Cmd("sysctl-set", "ip_forward", "", "", 1), F, TRUE)
              ELSE s7
    IN  [s |-> s8, ipf |-> en]

\* the portal branch of the linux ConfigHost, from the state after "link up"
LinuxPortalApply(s3, F, ifc, ipf) ==
    LET s4 == Step(s3, Cmd("ipt-add", "FORWARD-in", "", TUN, 0), F, TRUE)
        s5 == Step(s4, Cmd("ipt-add", "FORWARD-out", "", TUN, 0), F, TRUE)
        s6 == Step(s5, Cmd("ipt-add", "NAT", "", ifc, 0), F, TRUE)
        s7 == Step(s6, Cmd("sysctl-read", "ip_forward", "", "", 0), F, TRUE)
        rd == ~s7.err
        en == IF rd THEN s7.h.fwd ELSE ipf
        s8 == IF rd /\ ~en
              THEN Step(s7, Cmd("sysctl-set", "ip_forward", "", "", 1), F, TRUE)
              ELSE s7
    IN  [s |-> s8, ipf |-> en]

\* the rift branch of the linux ConfigHost
LinuxRiftApply(s3, F, gw, ifc, ipf) ==
    LET s4 == Step(s3, Cmd("route-del", "default", gw, ifc, 0), F, TRUE)
        s5 == Step(s4, Cmd("route-add", "default", gw, ifc, 50), F, TRUE)
        s6 == Step(s5, Cmd("route-add", "default", "", TUN, 0), F, TRUE)
    IN  [s |-> s6, ipf |-> ipf]

ConfigHostLinuxPortalRegardless(h, l, F, vh, gw, ifc, isPortal, ipf) ==
    LET s0 == VeilRoute(Begin(h, l), "route-add", vh, gw, ifc, F)
        s1 == Step(s0, Cmd("addr-flush", "", "", TUN, 0), F, TRUE)
        s2 == Step(s1, Cmd("addr-add", TunIP, "", TUN, 0), F, TRUE)
        s3 == Step(s2, Cmd("link-up", "", "", TUN, 0), F, TRUE)
    IN  LinuxPortalApply(s3, F, ifc, ipf)

\* the linux ConfigHost: the route to the control-plane host, the address and
\* the link of the TUN interface, then `if c.portal { ... } else { ... }`
ConfigHostLinux(h, l, F, vh, gw, ifc, isPortal, ipf) ==
    LET s0 == VeilRoute(Begin(h, l), "route-add", vh, gw, ifc, F)
        s1 == Step(s0, Cmd("addr-flush", "", "", TUN, 0), F, TRUE)
        s2 == Step(s1, Cmd("addr-add", TunIP, "", TUN, 0), F, TRUE)
        s3 == Step(s2, Cmd("link-up", "", "", TUN, 0), F, TRUE)
    IN  IF isPortal THEN LinuxPortalApply(s3, F, ifc, ipf)
        ELSE LinuxRiftApply(s3, F, gw, ifc, ipf)

ConfigHostDarwin(h, l, F, vh, gw, ifc, ipf) ==
    LET s0 == VeilRoute(Begin(h, l), "route-add", vh, gw, ifc, F)
        s1 == Step(s0, Cmd("link-up", "", "", TUN, 0), F, TRUE)
        s2 == Step(s1, Cmd("addr-add", TunIP, "", TUN, 0), F, TRUE)
        s3 == Step(s2, Cmd("route-del", "default", "", "", 0), F, TRUE)
        s4 == Step(s3, Cmd("route-add", "default", gw, "", 10), F, TRUE)
        s5 == Step(s4, Cmd("route-add", "default", "", TUN, 5), F, TRUE)
    IN  [s |-> s5, ipf |-> ipf]

ConfigHostWindows(h, l, F, vh, gw, ipf) ==
    LET s0 == VeilRoute(Begin(h, l), "route-add", vh, gw, "", F)
        s1 == Step(s0, Cmd("addr-add", TunIP, "", TUN, 0), F, TRUE)
        s2 == Step(s1, Cmd("dns-set", "1.1.1.1", "", TUN, 0), F, TRUE)
        s3 == Step(s2, Cmd("if-lookup", "", "", TUN, 0), F, TRUE)
        s4 == Step(s3, Cmd("route-add", "default", TunIP, TUN, 5), F, TRUE)
    IN  [s |-> s4, ipf |-> ipf]

ConfigHostOf(p, h, l, F, vh, gw, ifc, isPortal, ipf) ==
    CASE p = "linux"  -> ConfigHostLinux(h, l, F, vh, gw, ifc, isPortal, ipf)
      [] p = "darwin" -> ConfigHostDarwin(h, l, F, vh, gw, ifc, ipf)
      [] OTHER        -> ConfigHostWindows(h, l, F, vh, gw, ipf)

LinuxPortalRetractAlwaysDisables(s0, F, ifc, ipf) ==
    LET s1 == Step(s0, Cmd("ipt-del", "FORWARD-in", "", TUN, 0), F, FALSE)
        s2 == Step(s1, Cmd("ipt-del", "FORWARD-out", "", TUN, 0), F, FALSE)
        s3 == Step(s2, Cmd("ipt-del", "NAT", "", ifc, 0), F, FALSE)
    IN  Step(s3, Cmd("sysctl-set", "ip_forward", "", "", 0), F, FALSE)

\* the portal branch of the linux CleanHostConfiguraions
LinuxPortalRetract(s0, F, ifc, ipf) ==
    LET s1 == Step(s0, Cmd("ipt-del", "FORWARD-in", "", TUN, 0), F, FALSE)
        s2 == Step(s1, Cmd("ipt-del", "FORWARD-out", "", TUN, 0), F, FALSE)
        s3 == Step(s2, Cmd("ipt-del", "NAT", "", ifc, 0), F, FALSE)
    IN  IF ~ipf THEN Step(s3, Cmd("sysctl-set", "ip_forward", "", "", 0), F, FALSE) ELSE s3

\* the rift branch of the linux CleanHostConfiguraions
LinuxRiftRetract(s0, F, gw, ifc) ==
    LET s1 == Step(s0, Cmd("route-del", "default", "", TUN, 0), F, FALSE)
        s2 == Step(s1, Cmd("route-del", "default", gw, ifc, 0), F, FALSE)
    IN  Step(s2, Cmd("route-add", "default", gw, ifc, 0), F, FALSE)

CleanLinux(h, l, F, vh, gw, ifc, isPortal, ipf) ==
    LET s0 == VeilRoute(Begin(h, l), "route-del", vh, gw, ifc, F)
    IN  IF isPortal THEN LinuxPortalRetract(s0, F, ifc, ipf)
        ELSE LinuxRiftRetract(s0, F, gw, ifc)

CleanDarwin(h, l, F, vh, gw) ==
    LET s0 == VeilRoute(Begin(h, l), "route-del", vh, gw, "", F)
        s1 == Step(s0, Cmd("route-del", "default", "", TUN, 0), F, FALSE)
        s2 == Step(s1, Cmd("route-del", "default", "", "", 0), F, FALSE)
    IN  Step(s2, Cmd("route-add", "default", gw, "", 0), F, FALSE)

CleanWindows(h, l, F, vh, gw) ==
    LET s0 == Step(Begin(h, l), Cmd("if-lookup", "", "", TUN, 0), F, TRUE)
        s1 == Step(s0, Cmd("route-del", "default", "", TUN, 0), F, FALSE)
    IN  IF s0.err THEN s0 ELSE VeilRoute(s1, "route-del", vh, gw, "", F)

CleanOf(p, h, l, F, vh, gw, ifc, isPortal, ipf) ==
    CASE p = "linux"  -> CleanLinux(h, l, F, vh, gw, ifc, isPortal, ipf)
      [] p = "darwin" -> CleanDarwin(h, l, F, vh, gw)
      [] OTHER        -> CleanWindows(h, l, F, vh, gw)

(***************************************************************************)
(* The parsers of DetectHostGateway.  A line is a sequence of pieces: a    *)
(* piece is a word or " ", a run of whitespace; two words next to each     *)
(* other are separated by whitespace.                                       *)
(***************************************************************************)
\* strings.Fields(line)
Fields(line) == SelectSeq(line, LAMBDA x : x # " ")

\* strings.TrimSpace(line)
RECURSIVE TrimSpace(_)
TrimSpace(line) ==
    IF line = <<>> THEN line
    ELSE IF Head(line) = " " THEN TrimSpace(Tail(line))
    ELSE IF line[Len(line)] = " " THEN TrimSpace(SubSeq(line, 1, Len(line) - 1))
    ELSE line

\* strings.HasPrefix(line, word), for a word the listing prints whole
HasPrefix(line, word) == line # <<>> /\ line[1] = word

\* for i := 0; i < len(fields); i++ { if fields[i] == key && i+1 < len(fields)
\* { v = fields[i+1] } }: the value after the last key, "" without one
FieldAfter(fields, key) ==
    LET at == {i \in 1..(Len(fields) - 1) : fields[i] = key}
    IN  IF at = {} THEN ""
        ELSE fields[1 + CHOOSE i \in at : \A j \in at : j <= i]

\* the first of the lines of out whose index is in at, <<>> when at is empty
FirstLine(out, at) ==
    IF at = {} THEN <<>> ELSE out[CHOOSE i \in at : \A j \in at : i <= j]

IsDefaultLinux(line) == HasPrefix(line, "default")

\* linux: the first line that starts with "default", its words after via and dev
ParseLinux(out, gw, ifc) ==
    LET fields == Fields(FirstLine(out, {i \in 1..Len(out) : IsDefaultLinux(out[i])}))
        gw1    == FieldAfter(fields, "via")
        if1    == FieldAfter(fields, "dev")
    IN  IF gw1 = "" \/ if1 = ""
        THEN [err |-> TRUE, gateway |-> gw, iface |-> ifc]
        ELSE [err |-> FALSE, gateway |-> gw1, iface |-> if1]

\* strings.TrimSpace(strings.TrimPrefix(line, key)) of a trimmed line
\* that starts with key
ValueAfter(line) == IF Len(Fields(line)) >= 2 THEN Fields(line)[2] ELSE ""

\* darwin: every "gateway:" and "interface:" line is stored into the fields
\* as it is met
RECURSIVE ScanDarwin(_, _, _, _)
ScanDarwin(out, k, gw, ifc) ==
    IF k > Len(out) THEN [gateway |-> gw, iface |-> ifc]
    ELSE LET line == TrimSpace(out[k])
         IN  ScanDarwin(out, k + 1,
                        IF HasPrefix(line, "gateway:") THEN ValueAfter(line) ELSE gw,
                        IF HasPrefix(line, "interface:") THEN ValueAfter(line) ELSE ifc)

ParseDarwin(out, gw, ifc) ==
    LET r == ScanDarwin(out, 1, gw, ifc)
    IN  [err |-> r.gateway = "" \/ r.iface = "", gateway |-> r.gateway, iface |-> r.iface]

IsDefaultWindows(line) ==
    LET f == Fields(line) IN Len(f) >= 5 /\ f[1] = "0.0.0.0" /\ f[2] = "0.0.0.0"

\* windows: the first line of five or more fields that starts 0.0.0.0 0.0.0.0
ParseWindows(out, gw, ifc) ==
    LET f == Fields(FirstLine(out, {i \in 1..Len(out) : IsDefaultWindows(out[i])}))
    IN  IF f = <<>> THEN [err |-> TRUE, gateway |-> gw, iface |-> ifc]
        ELSE [err |-> FALSE, gateway |-> f[3], iface |-> f[4]]

ParseRouteOutput(p, out, gw, ifc) ==
    CASE p = "linux"  -> ParseLinux(out, gw, ifc)
      [] p = "darwin" -> ParseDarwin(out, gw, ifc)
      [] OTHER        -> ParseWindows(out, gw, ifc)

\* the lines a listing may hold: default-route lines, unrelated lines and
\* the empty line, each with or without whitespace in front and behind
Texts(p) ==
    CASE p = "linux" ->
           {<<"default", "via", "gw", "dev", "eth0">>,
            <<"default", "via", "gw2", "dev", "wlan0">>,
            <<"10.0.0.0/8", "dev", "eth1">>, <<>>}
      [] p = "darwin" ->
           {<<"gateway:", "gw">>, <<"gateway:", "gw2">>, <<"interface:", "eth0">>,
            <<"destination:", "default">>, <<>>}
      [] OTHER ->
           {<<"0.0.0.0", "0.0.0.0", "gw", "eth0", "25">>,
            <<"0.0.0.0", "0.0.0.0", "gw2", "wlan0", "35">>,
            <<"Network", "Destination", "Netmask", "Gateway", "Interface">>, <<>>}

Pad(t, l, r) == (IF l THEN <<" ">> ELSE <<>>) \o t \o (IF r THEN <<" ">> ELSE <<>>)

Lines(p) == {Pad(t, l, r) : t \in Texts(p), l \in BOOLEAN, r \in BOOLEAN}

Listings(p) == UNION {[1..n -> Lines(p)] : n \in 0..MaxLines}

(***************************************************************************)
(* The data path of the relay loops.  A buffer is a sequence of bytes; a   *)
(* batch is a sequence of datagrams.                                        *)
(***************************************************************************)
\* newBuf := make([]byte, 16+len(bufs[i]))
HeaderLen == 16

\* a datagram of S bytes whose bytes depend on their position
Datagram(S, t) == [k \in 1..S |-> (k + t) % 2]

\* what one batched read may return: up to BatchSize datagrams of any
\* sizes, neighbours differing in their bytes
Batches(lo) ==
    UNION {{[i \in 1..n |-> Datagram(sz[i], t + i)] : sz \in [1..n -> lo..Mtu], t \in {0, 1}}
           : n \in 0..BatchSize}

PrefixAll(q, n) == q

\* bufs[:n]
Prefix(q, n) == SubSeq(q, 1, n)

\* the write call a loop iteration did not make
NoWrite == [called |-> FALSE, bufs |-> <<>>, arg |-> <<>>, from |-> <<>>]

\* what the relay loops have read and written so far, per direction, and
\* whether the latest read of a direction failed: kept for the properties,
\* never read by the loops
NoTraffic == [inGot |-> <<>>, inPut |-> <<>>, egGot |-> <<>>, egPut |-> <<>>,
              inErr |-> FALSE, egErr |-> FALSE, rounds |-> 0]

\* no relay loop is running
NoRelay == [inBufs |-> <<>>, egBufs |-> <<>>, egSizes |-> <<>>,
            devWrite |-> NoWrite, anchorWrite |-> NoWrite, seen |-> NoTraffic]

\* bufs := make([][]byte, c.device.BatchSize()) in ingress: nil slices;
\* in egress every buffer is make([]byte, mtu) and sizes are zero
NewRelay ==
    [inBufs |-> [i \in 1..BatchSize |-> <<>>],
     egBufs |-> [i \in 1..BatchSize |-> [k \in 1..Mtu |-> 0]],
     egSizes |-> [i \in 1..BatchSize |-> 0],
     devWrite |-> NoWrite, anchorWrite |-> NoWrite, seen |-> NoTraffic]

\* c.anchor.Read(bufs, batchSize) returning the datagrams of batch: the
\* buffers start as nil slices, so the anchor hands out the datagrams by
\* setting bufs[i]
AnchorRead(bufs, batch) ==
    [i \in 1..Len(bufs) |-> IF i <= Len(batch) THEN batch[i] ELSE bufs[i]]

PrependNoHeader(b) == b

\* newBuf := make([]byte, 16+len(b)); copy(newBuf[16:], b)
Prepend(b) ==
    [k \in 1..(HeaderLen + Len(b)) |-> IF k <= HeaderLen THEN 0 ELSE b[k - HeaderLen]]

IngressBodyReversed(bufs, n) ==
    [i \in 1..Len(bufs) |-> IF i <= n THEN Prepend(bufs[n + 1 - i]) ELSE bufs[i]]

\* for i := 0; i < n; i++ { ...; bufs[i] = newBuf }
IngressBody(bufs, n) ==
    [i \in 1..Len(bufs) |-> IF i <= n THEN Prepend(bufs[i]) ELSE bufs[i]]

\* c.device.Read(bufs, sizes, 0) returning the datagrams of batch: datagram i
\* is stored from offset 0 of bufs[i], whose other bytes stay, and its length
\* in sizes[i]
DeviceReadBufs(bufs, batch) ==
    [i \in 1..Len(bufs) |->
        IF i <= Len(batch)
        THEN [k \in 1..Len(bufs[i]) |-> IF k <= Len(batch[i]) THEN batch[i][k] ELSE bufs[i][k]]
        ELSE bufs[i]]

DeviceReadSizes(sizes, batch) ==
    [i \in 1..Len(sizes) |-> IF i <= Len(batch) THEN Len(batch[i]) ELSE sizes[i]]

(***************************************************************************)
(* Construction                                                             *)
(***************************************************************************)
Threads == {"main", "stopper", "watcher", "ingress", "egress", "api"}

NoLoop == [i |-> 0, fails |-> 0, ret |-> ""]

History0 ==
    [addIssued |-> {}, addOk |-> {}, delIssued |-> [a \in AllAddrs |-> 0],
     gwUsed |-> {}, recorded |-> {}, calls |-> 0, addCalls |-> 0, lastCall |-> "none",
     addFailed |-> FALSE, delFailed |-> FALSE, unresolved |-> FALSE,
     stopCalls |-> 0, anchorStops |-> 0, cleanCalls |-> 0, cleanDone |-> 0,
     removeCalls |-> 0, removeDone |-> 0, closes |-> 0,
     started |-> {}, devIO |-> FALSE, ioAfterClose |-> FALSE,
     tunOK |-> FALSE, cidrOK |-> FALSE, configOK |-> FALSE, startOK |-> FALSE,
     anchorDied |-> FALSE, cleanFail |-> FALSE, signalled |-> FALSE,
     lookups |-> {}, dnsErr |-> {}, resolved4 |-> {}, tunCalls |-> 0,
     failedStep |-> "", loopPanic |-> FALSE, nilDeref |-> FALSE]

\* newConflux() on a host whose default route has metric m and whose IP
\* forwarding is f
NewConflux(p, m, f) ==
    /\ host = [routes |-> {Route("default", HostGw, HostIf, m)}, bypass |-> {},
               fwd |-> f, fw |-> [r \in FwRules |-> 0], tun |-> FALSE]
    /\ log = <<>>
    /\ anchor = IF p = "windows" THEN "set" ELSE "nil"
    /\ anchorCtx = "new"
    /\ device = "nil"
    /\ portal = FALSE
    /\ gateway = ""
    /\ iface = ""
    /\ bypassRoutes = [h \in AllHosts |-> NoAddr]
    /\ ipForwardEnabled = FALSE
    /\ once = "idle"
    /\ loc = NoLoop
    /\ exitCode = -1
    /\ exitBy = "none"
    /\ g = History0

\* The hosts and flags the model starts from.  Only the linux variant has
\* code about IP forwarding, and only Rift mode touches the default route,
\* so the other combinations are left at one value.
Environment ==
    /\ platform \in Platforms
    /\ cliPortal \in BOOLEAN
    /\ veilHost \in {"", VeilHostAddr}
    /\ metric0 \in IF cliPortal THEN {0} ELSE Metrics
    /\ fwd0 \in IF platform = "linux" THEN BOOLEAN ELSE {FALSE}

Init ==
    /\ Environment
    /\ net = "reliable"
    /\ relay = NoRelay
    /\ routeOut = <<>>
    /\ NewConflux(platform, metric0, fwd0)
    /\ pc = [t \in Threads |-> IF t = "main" THEN "start" ELSE "idle"]

Alive == exitCode = -1

Goto(t, l) == pc' = [pc EXCEPT ![t] = l]

\* the process ends: every goroutine is gone
Exit(code, by) ==
    /\ exitCode' = code
    /\ exitBy' = by
    /\ pc' = [t \in Threads |-> "dead"]

(***************************************************************************)
(* Start, step by step, on the goroutine of Up.Run                         *)
(***************************************************************************)
PortalUnsupportedNever(p, flag) == FALSE

\* darwin and windows refuse Portal mode on entry
PortalUnsupported(p, flag) == p # "linux" /\ flag

M_Begin ==
    /\ Alive /\ pc["main"] = "start"
    /\ IF PortalUnsupported(platform, cliPortal)
       THEN Goto("main", "startErr") /\ UNCHANGED portal
       ELSE /\ Goto("main", "detect")
            /\ portal' = IF platform = "linux" THEN cliPortal ELSE portal
    /\ UNCHANGED <<envVars, host, log, anchor, anchorCtx, device, gateway, iface,
                   bypassRoutes, ipForwardEnabled, once, loc, exitCode, exitBy, g>>

\* the default route DetectHostGateway finds in the route listing
DefaultRoute(h) ==
    CHOOSE r \in h.routes : r.dst = "default" /\
        \A q \in h.routes : q.dst = "default" => r.metric <= q.metric

DetectHostGateway(t, okLabel, errLabel) ==
    \E fail \in BOOLEAN :
       LET found == ~fail /\ \E r \in host.routes : r.dst = "default"
       IN  /\ log' = Append(log, [c |-> Cmd("route-show", "default", "", "", 0), ok |-> ~fail])
           /\ IF found
              THEN /\ gateway' = DefaultRoute(host).via
                   /\ iface' = DefaultRoute(host).dev
                   /\ Goto(t, okLabel)
              ELSE /\ UNCHANGED <<gateway, iface>>
                   /\ Goto(t, errLabel)

AfterDetectIgnoringError(failed) == "addBypass"

\* if err != nil { return err }: the bypass routes come only after a
\* successful detection
AfterDetect(failed) == IF failed THEN "startErr" ELSE "addBypass"

M_Detect ==
    /\ Alive /\ pc["main"] = "detect"
    /\ DetectHostGateway("main", AfterDetect(FALSE), AfterDetect(TRUE))
    /\ loc' = IF pc'["main"] = "addBypass" THEN [i |-> 1, fails |-> 0, ret |-> "createTUN"] ELSE loc
    /\ g' = IF pc'["main"] = "addBypass"
            THEN [g EXCEPT !.addCalls = @ + 1, !.lastCall = "adding"]
            ELSE [g EXCEPT !.failedStep = "detect"]
    /\ UNCHANGED <<envVars, host, anchor, anchorCtx, device, portal, bypassRoutes,
                   ipForwardEnabled, once, exitCode, exitBy>>

NextHostStopsOnError(err, i) == IF err THEN 1 + Len(BypassHosts(platform)) ELSE i + 1

\* `continue` after a failed lookup and the end of the loop body alike move on
\* to the next hostname
NextHost(err, i) == i + 1

\* one iteration of the loop over hosts in AddBypassRoutes
AddBypassHost(t) ==
    /\ Alive /\ pc[t] = "addBypass"
    /\ LET hosts == BypassHosts(platform)
           i     == loc.i
           st0   == [bypass |-> host.bypass, br |-> bypassRoutes, g |-> g]
       IN  \E ans \in DnsAnswers(i) : \E F \in AddFailSets(ans.ips, loc.fails) :
              LET st == IF ans.err THEN st0 ELSE AddIps(st0, hosts[i], ans.ips, 1, F, gateway)
              IN  /\ host' = [host EXCEPT !.bypass = st.bypass]
                  /\ bypassRoutes' = st.br
                  /\ g' = [st.g EXCEPT
                            !.recorded = @ \cup (IF st.br[hosts[i]] = NoAddr THEN {}
                                                 ELSE {st.br[hosts[i]]}),
                            !.unresolved = @ \/ ans.err
                                             \/ \A k \in DOMAIN ans.ips : To4(ans.ips[k]) = NoAddr,
                            !.lookups = @ \cup {hosts[i]},
                            !.dnsErr = IF ans.err THEN @ \cup {hosts[i]} ELSE @,
                            !.resolved4 = IF \E k \in DOMAIN ans.ips : To4(ans.ips[k]) # NoAddr
                                          THEN @ \cup {hosts[i]} ELSE @,
                            !.lastCall = IF NextHost(ans.err, i) > Len(hosts) THEN "add" ELSE @]
                  /\ IF NextHost(ans.err, i) > Len(hosts)
                     THEN Goto(t, loc.ret) /\ loc' = NoLoop
                     ELSE /\ loc' = [loc EXCEPT !.i = NextHost(ans.err, i),
                                                !.fails = @ + Cardinality(F)]
                          /\ UNCHANGED pc
    /\ UNCHANGED <<envVars, log, anchor, anchorCtx, device, portal, gateway, iface,
                   ipForwardEnabled, once, exitCode, exitBy>>

M_CreateTUN ==
    /\ Alive /\ pc["main"] = "createTUN"
    /\ \E ok \in BOOLEAN :
          IF ok
          THEN /\ device' = "open"
               /\ host' = [host EXCEPT !.tun = TRUE]
               /\ g' = [g EXCEPT !.tunOK = TRUE, !.tunCalls = @ + 1]
               /\ Goto("main", "startAnchor")
          ELSE /\ UNCHANGED <<device, host>>
               /\ g' = [g EXCEPT !.tunCalls = @ + 1, !.failedStep = "createTUN"]
               /\ Goto("main", "startErr")
    /\ UNCHANGED <<envVars, log, anchor, anchorCtx, portal, gateway, iface,
                   bypassRoutes, ipForwardEnabled, once, loc, exitCode, exitBy>>

M_StartAnchor ==
    /\ Alive /\ pc["main"] = "startAnchor"
    /\ anchor' = "set"
    /\ \E ok \in BOOLEAN :
          IF ok
          THEN anchorCtx' = "alive" /\ Goto("main", "getCIDR") /\ UNCHANGED g
          ELSE /\ anchorCtx' = "new" /\ Goto("main", "startErr")
               /\ g' = [g EXCEPT !.failedStep = "startAnchor"]
    /\ UNCHANGED <<envVars, host, log, device, portal, gateway, iface, bypassRoutes,
                   ipForwardEnabled, once, loc, exitCode, exitBy>>

AfterGetCIDRIgnoringError(r) == "configHost"

\* if err != nil { return err } after GetCIDR, and the return on a CIDR that
\* does not split in two
AfterGetCIDR(r) == IF r = "ok" THEN "configHost" ELSE "startErr"

M_GetCIDR ==
    /\ Alive /\ pc["main"] = "getCIDR"
    /\ \E r \in {"ok", "err", "badformat"} :
          /\ g' = IF r = "ok" THEN [g EXCEPT !.cidrOK = TRUE]
                  ELSE [g EXCEPT !.failedStep = "getCIDR"]
          /\ Goto("main", AfterGetCIDR(r))
    /\ UNCHANGED <<envVars, host, log, anchor, anchorCtx, device, portal, gateway,
                   iface, bypassRoutes, ipForwardEnabled, once, loc, exitCode, exitBy>>

\* the most commands one handler issues
MaxCmds == 9

AfterConfigIgnoringError(failed) == "spawn"

\* if err != nil { return err }: the loops are launched only after ConfigHost
\* returned nil
AfterConfig(failed) == IF failed THEN "startErr" ELSE "spawn"

M_ConfigHost ==
    /\ Alive /\ pc["main"] = "configHost"
    /\ \E r \in {ConfigHostOf(platform, host, log, F, veilHost, gateway, iface,
                              portal, ipForwardEnabled) : F \in FailSets(MaxCmds)} :
              /\ host' = r.s.h
              /\ log' = r.s.log
              /\ ipForwardEnabled' = r.ipf
              /\ g' = [g EXCEPT !.configOK = ~r.s.err,
                                !.gwUsed = @ \cup {gateway},
                                !.failedStep = IF r.s.err THEN "configHost" ELSE @]
              /\ Goto("main", AfterConfig(r.s.err))
    /\ UNCHANGED <<envVars, anchor, anchorCtx, device, portal, gateway, iface,
                   bypassRoutes, once, loc, exitCode, exitBy>>

\* what Start launches once ConfigHost has returned nil
Launched(p) ==
    IF p = "windows" THEN {"ingress", "egress"} ELSE {"ingress", "egress", "watcher"}

FirstLabel(t) ==
    CASE t = "ingress" -> "i_top" [] t = "egress" -> "e_top" [] OTHER -> "w_begin"

M_Spawn ==
    /\ Alive /\ pc["main"] = "spawn"
    /\ pc' = [t \in Threads |->
                IF t = "main" THEN "waitSig"
                ELSE IF t \in Launched(platform) THEN FirstLabel(t) ELSE pc[t]]
    /\ g' = [g EXCEPT !.startOK = TRUE, !.started = Launched(platform)]
    /\ UNCHANGED <<envVars, host, log, anchor, anchorCtx, device, portal, gateway,
                   iface, bypassRoutes, ipForwardEnabled, once, loc, exitCode, exitBy>>

\* main.go: Run returned the error of Start
M_StartErr ==
    /\ Alive /\ pc["main"] = "startErr"
    /\ Exit(1, "startErr")
    /\ UNCHANGED <<envVars, host, log, anchor, anchorCtx, device, portal, gateway,
                   iface, bypassRoutes, ipForwardEnabled, once, loc, g>>

(***************************************************************************)
(* Up.Run after Start: wait for a signal, stop in a goroutine, wait for    *)
(* it at most ten seconds                                                   *)
(***************************************************************************)
Signal ==
    /\ Alive /\ pc["main"] = "waitSig"
    /\ pc' = [pc EXCEPT !["main"] = "select", !["stopper"] = "s_enter"]
    /\ g' = [g EXCEPT !.signalled = TRUE]
    /\ UNCHANGED <<envVars, host, log, anchor, anchorCtx, device, portal, gateway,
                   iface, bypassRoutes, ipForwardEnabled, once, loc, exitCode, exitBy>>

\* shutdownComplete received: Run returns nil and main returns
M_Complete ==
    /\ Alive /\ pc["main"] = "select" /\ pc["stopper"] = "sent"
    /\ Exit(0, "complete")
    /\ UNCHANGED <<envVars, host, log, anchor, anchorCtx, device, portal, gateway,
                   iface, bypassRoutes, ipForwardEnabled, once, loc, g>>

\* time.After fired first: Run returns nil all the same
M_Timeout ==
    /\ Alive /\ pc["main"] = "select"
    /\ Exit(0, "timeout")
    /\ UNCHANGED <<envVars, host, log, anchor, anchorCtx, device, portal, gateway,
                   iface, bypassRoutes, ipForwardEnabled, once, loc, g>>

\* the tunnel endpoint terminates on its own: its context is cancelled
AnchorDies ==
    /\ Alive /\ anchorCtx = "alive"
    /\ anchorCtx' = "done"
    /\ g' = [g EXCEPT !.anchorDied = TRUE]
    /\ UNCHANGED <<envVars, host, log, anchor, device, portal, gateway, iface,
                   bypassRoutes, ipForwardEnabled, once, pc, loc, exitCode, exitBy>>

\* a client of the Conflux interface calls Stop once Start has returned
ApiStop ==
    /\ Alive /\ pc["api"] = "idle"
    /\ pc["main"] \in {"startErr", "waitSig", "select"}
    /\ g.calls < MaxStopCalls
    /\ Goto("api", "s_enter")
    /\ g' = [g EXCEPT !.calls = @ + 1]
    /\ UNCHANGED <<envVars, host, log, anchor, anchorCtx, device, portal, gateway,
                   iface, bypassRoutes, ipForwardEnabled, once, loc, exitCode, exitBy>>

(***************************************************************************)
(* Stop: c.once.Do(func)                                                    *)
(***************************************************************************)
Stoppers == {"stopper", "watcher", "api"}

\* where a goroutine continues when its call of Stop returns
After(t) == CASE t = "stopper" -> "send" [] t = "watcher" -> "w_exit" [] OTHER -> "idle"

\* what once.Do does with a caller that finds the guard in state o
OnceDo(o) == CASE o = "idle" -> "run" [] o = "running" -> "wait" [] OTHER -> "skip"

S_Enter(t) ==
    /\ Alive /\ pc[t] = "s_enter"
    /\ g' = [g EXCEPT !.stopCalls = @ + 1]
    /\ CASE OnceDo(once) = "run"  -> once' = "running" /\ Goto(t, "s_anchor")
         [] OnceDo(once) = "wait" -> UNCHANGED once /\ Goto(t, "s_blocked")
         [] OTHER                 -> UNCHANGED once /\ Goto(t, After(t))
    /\ UNCHANGED <<envVars, host, log, anchor, anchorCtx, device, portal, gateway,
                   iface, bypassRoutes, ipForwardEnabled, loc, exitCode, exitBy>>

S_Unblock(t) ==
    /\ Alive /\ pc[t] = "s_blocked" /\ once = "done"
    /\ Goto(t, After(t))
    /\ UNCHANGED <<envVars, host, log, anchor, anchorCtx, device, portal, gateway,
                   iface, bypassRoutes, ipForwardEnabled, once, loc, exitCode, exitBy, g>>

NextStopStepRemoveFirst(p, l) ==
    CASE l = "s_anchor" -> IF p = "linux" THEN "s_nil" ELSE "s_remove"
      [] l = "s_nil"    -> "s_remove"
      [] l = "s_remove" -> "s_clean"
      [] OTHER          -> "s_close"

\* the statements of the function Stop hands to once.Do, in their order:
\* anchor.Stop, (linux: c.anchor = nil,) CleanHostConfiguraions,
\* RemoveBypassRoutes, device.Close
NextStopStep(p, l) ==
    CASE l = "s_anchor" -> IF p = "linux" THEN "s_nil" ELSE "s_clean"
      [] l = "s_nil"    -> "s_clean"
      [] l = "s_clean"  -> "s_remove"
      [] OTHER          -> "s_close"

\* if c.anchor != nil { c.anchor.Stop() }
S_Anchor(t) ==
    /\ Alive /\ pc[t] = "s_anchor"
    /\ IF anchor # "nil"
       THEN anchorCtx' = "done" /\ g' = [g EXCEPT !.anchorStops = @ + 1]
       ELSE UNCHANGED <<anchorCtx, g>>
    /\ Goto(t, NextStopStep(platform, "s_anchor"))
    /\ UNCHANGED <<envVars, host, log, anchor, device, portal, gateway, iface,
                   bypassRoutes, ipForwardEnabled, once, loc, exitCode, exitBy>>

\* linux only: c.anchor = nil
S_Nil(t) ==
    /\ Alive /\ pc[t] = "s_nil"
    /\ anchor' = "nil"
    /\ Goto(t, NextStopStep(platform, "s_nil"))
    /\ UNCHANGED <<envVars, host, log, anchorCtx, device, portal, gateway, iface,
                   bypassRoutes, ipForwardEnabled, once, loc, exitCode, exitBy, g>>

\* What a method call on c.anchor can do: on a nil anchor the callee is not
\* part of this repository, so it either dereferences its receiver (panic)
\* or answers its zero value.
AnchorCall == IF anchor = "nil" THEN {"panic", "zero"} ELSE {"value"}

\* c.CleanHostConfiguraions()
S_Clean(t) ==
    /\ Alive /\ pc[t] = "s_clean"
    /\ \E out \in AnchorCall :
          IF out = "panic"
          THEN /\ Exit(2, "panic")
               /\ once' = "done"
               /\ g' = [g EXCEPT !.cleanCalls = @ + 1, !.nilDeref = TRUE]
               /\ UNCHANGED <<host, log, loc>>
          ELSE \E s \in {CleanOf(platform, host, log, F,
                                  IF out = "zero" THEN "" ELSE veilHost,
                                  gateway, iface, portal, ipForwardEnabled) :
                          F \in FailSets(MaxCmds)} :
                     /\ host' = s.h
                     /\ log' = s.log
                     /\ g' = [g EXCEPT !.cleanCalls = @ + 1,
                                       !.cleanDone = IF s.err THEN @ ELSE @ + 1,
                                       !.cleanFail = \E k \in 1..Len(s.log) :
                                                        k > Len(log) /\ ~s.log[k].ok,
                                       !.gwUsed = @ \cup {gateway},
                                       !.nilDeref = @ \/ out = "zero"]
                     /\ Goto(t, NextStopStep(platform, "s_clean"))
                     /\ UNCHANGED <<once, loc, exitCode, exitBy>>
    /\ UNCHANGED <<envVars, anchor, anchorCtx, device, portal, gateway, iface,
                   bypassRoutes, ipForwardEnabled>>

\* the entries of c.bypassRoutes
Recorded(br) == {h \in AllHosts : br[h] # NoAddr}

Perms(S) == {q \in [1..Cardinality(S) -> S] : \A a, b \in DOMAIN q : a # b => q[a] # q[b]}

\* which delete the environment makes fail (0: none)
DelFails(n) == IF net = "reliable" THEN {0} ELSE 0..n

\* Range over c.bypassRoutes in the order ord, calling the function of
\* RemoveBypassRoutes on each entry: it returns false, which ends the Range,
\* when the delete fails.  st = [bypass, g].
RECURSIVE RangeFrom(_, _, _, _, _)
RangeFrom(st, br, ord, k, failAt) ==
    IF k > Len(ord) THEN st
    ELSE LET ip   == br[ord[k]]
             ok   == k # failAt /\ ip \in st.bypass
             next == [bypass |-> IF ok THEN st.bypass \ {ip} ELSE st.bypass,
                      g      |-> [st.g EXCEPT !.delIssued[ip] = @ + 1,
                                              !.delFailed = @ \/ ~ok]]
         IN  IF ok THEN RangeFrom(next, br, ord, k + 1, failAt) ELSE next

\* c.RemoveBypassRoutes() inside Stop
S_Remove(t) ==
    /\ Alive /\ pc[t] = "s_remove"
    /\ \E st \in {RangeFrom([bypass |-> host.bypass, g |-> g], bypassRoutes, ord, 1, failAt) :
                      ord \in Perms(Recorded(bypassRoutes)),
                      failAt \in DelFails(Cardinality(Recorded(bypassRoutes)))} :
          /\ host' = [host EXCEPT !.bypass = st.bypass]
          /\ g' = [st.g EXCEPT !.removeDone = @ + 1, !.lastCall = "remove"]
    /\ Goto(t, NextStopStep(platform, "s_remove"))
    /\ UNCHANGED <<envVars, log, anchor, anchorCtx, device, portal, gateway, iface,
                   bypassRoutes, ipForwardEnabled, once, loc, exitCode, exitBy>>

\* if c.device != nil { c.device.Close() }, then the function of once.Do returns
S_Close(t) ==
    /\ Alive /\ pc[t] = "s_close"
    /\ IF device # "nil"
       THEN /\ device' = "closed"
            /\ host' = [host EXCEPT !.tun = FALSE]
            /\ g' = [g EXCEPT !.closes = @ + 1]
       ELSE UNCHANGED <<device, host, g>>
    /\ once' = "done"
    /\ Goto(t, After(t))
    /\ UNCHANGED <<envVars, log, anchor, anchorCtx, portal, gateway, iface,
                   bypassRoutes, ipForwardEnabled, loc, exitCode, exitBy>>

\* shutdownComplete <- true
StopperSend ==
    /\ Alive /\ pc["stopper"] = "send"
    /\ Goto("stopper", "sent")
    /\ UNCHANGED <<envVars, host, log, anchor, anchorCtx, device, portal, gateway,
                   iface, bypassRoutes, ipForwardEnabled, once, loc, exitCode, exitBy, g>>

(***************************************************************************)
(* The liveness watcher Start launches (linux, darwin)                      *)
(***************************************************************************)
quiet == <<envVars, host, log, anchor, anchorCtx, device, portal, gateway, iface,
           bypassRoutes, ipForwardEnabled, once, loc>>

\* the goroutine evaluates c.anchor.Ctx when it first runs
W_Begin ==
    /\ Alive /\ pc["watcher"] = "w_begin"
    /\ IF anchor = "nil"
       THEN Exit(2, "panic") /\ g' = [g EXCEPT !.nilDeref = TRUE]
       ELSE Goto("watcher", "w_wait") /\ UNCHANGED <<exitCode, exitBy, g>>
    /\ UNCHANGED quiet

\* what the watcher does once <-c.anchor.Ctx.Done() returns
WatcherStops(p) == p = "darwin"

W_Fire ==
    /\ Alive /\ pc["watcher"] = "w_wait" /\ anchorCtx = "done"
    /\ IF WatcherStops(platform)
       THEN Goto("watcher", "s_enter") /\ UNCHANGED <<exitCode, exitBy>>
       ELSE Exit(1, "watcher")
    /\ UNCHANGED <<quiet, g>>

\* os.Exit(1) after c.Stop() returned
W_Exit ==
    /\ Alive /\ pc["watcher"] = "w_exit"
    /\ Exit(1, "watcher")
    /\ UNCHANGED <<quiet, g>>

(***************************************************************************)
(* The relay loops                                                          *)
(***************************************************************************)
\* select on c.anchor.Ctx.Done() at the top of an iteration
LoopTop(t, readLabel, doneLabel) ==
    /\ Alive /\ pc[t] = IF t = "ingress" THEN "i_top" ELSE "e_top"
    /\ IF anchor = "nil"
       THEN Exit(2, "panic") /\ g' = [g EXCEPT !.loopPanic = TRUE, !.nilDeref = TRUE]
       ELSE /\ Goto(t, IF anchorCtx = "done" THEN doneLabel ELSE readLabel)
            /\ UNCHANGED <<exitCode, exitBy, g>>
    /\ UNCHANGED quiet

\* a read or write on the TUN device
DeviceIO == [g EXCEPT !.devIO = TRUE, !.ioAfterClose = @ \/ device = "closed"]

\* darwin skips the write of an empty batch, the others do not
WritesEmpty(p) == p # "darwin"

I_Top == LoopTop("ingress", "i_read", "i_done")

\* n, err := c.anchor.Read(bufs, batch), then c.device.Write(bufs[:n], 16)
\* unless the read failed
I_Read ==
    /\ Alive /\ pc["ingress"] = "i_read"
    /\ \E o \in {IF out = "panic" THEN "panic"
                  ELSE IF out = "value" /\ (r = "data" \/ (r = "empty" /\ WritesEmpty(platform)))
                  THEN "write" ELSE "skip" : out \in AnchorCall, r \in {"err", "empty", "data"}} :
          IF o = "panic"
          THEN Exit(2, "panic") /\ g' = [g EXCEPT !.loopPanic = TRUE, !.nilDeref = TRUE]
          ELSE /\ UNCHANGED <<exitCode, exitBy>>
               /\ g' = IF o = "write" THEN DeviceIO
                       ELSE [g EXCEPT !.nilDeref = @ \/ anchor = "nil"]
               /\ Goto("ingress", "i_top")
    /\ UNCHANGED quiet

E_Top == LoopTop("egress", "e_read", "e_done")

\* n, err := c.device.Read(bufs, sizes, 0), then c.Write(bufs[:n], sizes[:n]),
\* which is c.anchor.Write, unless the read failed
E_Read ==
    /\ Alive /\ pc["egress"] = "e_read"
    /\ \E o \in {IF (r = "data" \/ (r = "empty" /\ WritesEmpty(platform))) /\ out # "value"
                  THEN out ELSE "next" : r \in {"err", "empty", "data"}, out \in AnchorCall} :
          IF o = "panic"
          THEN Exit(2, "panic") /\ g' = [DeviceIO EXCEPT !.loopPanic = TRUE, !.nilDeref = TRUE]
          ELSE /\ Goto("egress", "e_top")
               /\ g' = [DeviceIO EXCEPT !.nilDeref = @ \/ o = "zero"]
               /\ UNCHANGED <<exitCode, exitBy>>
    /\ UNCHANGED quiet

(***************************************************************************)
(* The program: main.go running the "up" command                           *)
(***************************************************************************)
StartSteps ==
    \/ M_Begin \/ M_Detect \/ AddBypassHost("main") \/ M_CreateTUN \/ M_StartAnchor
    \/ M_GetCIDR \/ M_ConfigHost \/ M_Spawn \/ M_StartErr

StopSteps ==
    \E t \in Stoppers :
       \/ S_Enter(t) \/ S_Unblock(t) \/ S_Anchor(t) \/ S_Nil(t) \/ S_Clean(t)
       \/ S_Remove(t) \/ S_Close(t)

Next ==
    \/ StartSteps
    \/ Signal \/ M_Complete \/ M_Timeout \/ AnchorDies \/ ApiStop
    \/ StopSteps \/ StopperSend
    \/ W_Begin \/ W_Fire \/ W_Exit
    \/ I_Top \/ I_Read \/ E_Top \/ E_Read

Spec == Init /\ [][Next]_vars

TypeOK ==
    /\ platform \in Platforms
    /\ anchor \in {"nil", "set"}
    /\ anchorCtx \in {"new", "alive", "done"}
    /\ device \in {"nil", "open", "closed"}
    /\ once \in {"idle", "running", "done"}
    /\ exitCode \in {-1, 0, 1, 2}

(***************************************************************************)
(* A client of the Conflux interface that calls the gateway detection and  *)
(* the bypass-route operations directly, with an unrestricted resolver      *)
(***************************************************************************)
InitBypass ==
    /\ platform \in Platforms
    /\ cliPortal = FALSE
    /\ veilHost = ""
    /\ metric0 = 0
    /\ fwd0 = FALSE
    /\ net = "any"
    /\ relay = NoRelay
    /\ routeOut = <<>>
    /\ NewConflux(platform, metric0, fwd0)
    /\ pc = [t \in Threads |-> IF t = "main" THEN "client" ELSE "idle"]

ClientReady == Alive /\ pc["main"] = "client" /\ g.calls < MaxApiCalls

C_Detect ==
    /\ ClientReady
    /\ DetectHostGateway("main", "client", "client")
    /\ g' = [g EXCEPT !.calls = @ + 1, !.lastCall = "detect"]
    /\ UNCHANGED <<envVars, host, anchor, anchorCtx, device, portal, bypassRoutes,
                   ipForwardEnabled, once, loc, exitCode, exitBy>>

\* AddBypassRoutes is called once per conflux
C_Add ==
    /\ ClientReady
    /\ g.addCalls = 0
    /\ Goto("main", "addBypass")
    /\ loc' = [i |-> 1, fails |-> 0, ret |-> "client"]
    /\ g' = [g EXCEPT !.calls = @ + 1, !.addCalls = @ + 1, !.lastCall = "adding"]
    /\ UNCHANGED <<envVars, host, log, anchor, anchorCtx, device, portal, gateway,
                   iface, bypassRoutes, ipForwardEnabled, once, exitCode, exitBy>>

C_Remove ==
    /\ ClientReady
    /\ \E ord \in Perms(Recorded(bypassRoutes)) :
          \E failAt \in DelFails(Len(ord)) :
             LET st == RangeFrom([bypass |-> host.bypass, g |-> g], bypassRoutes, ord, 1, failAt)
             IN  /\ host' = [host EXCEPT !.bypass = st.bypass]
                 /\ g' = [st.g EXCEPT !.removeDone = @ + 1, !.lastCall = "remove",
                                      !.calls = @ + 1]
    /\ UNCHANGED <<envVars, log, anchor, anchorCtx, device, portal, gateway, iface,
                   bypassRoutes, ipForwardEnabled, once, pc, loc, exitCode, exitBy>>

NextBypass == C_Detect \/ C_Add \/ AddBypassHost("main") \/ C_Remove

SpecBypass == InitBypass /\ [][NextBypass]_vars

(***************************************************************************)
(* A client of the Conflux interface that calls CreateTUN, CloseTUN and     *)
(* Stop one after the other                                                 *)
(***************************************************************************)
InitDevice ==
    /\ platform \in Platforms
    /\ cliPortal = FALSE
    /\ veilHost \in {"", VeilHostAddr}
    /\ metric0 = 0
    /\ fwd0 = FALSE
    /\ net = "reliable"
    /\ relay = NoRelay
    /\ routeOut = <<>>
    /\ NewConflux(platform, metric0, fwd0)
    /\ pc = [t \in Threads |-> IF t = "main" THEN "client" ELSE "idle"]

\* the client makes its next call when the previous one has returned
DeviceClientReady == ClientReady /\ pc["api"] = "idle"

\* CreateTUN, called while the conflux holds no device
T_CreateTUN ==
    /\ DeviceClientReady
    /\ device = "nil"
    /\ \E ok \in BOOLEAN :
          IF ok
          THEN /\ device' = "open"
               /\ host' = [host EXCEPT !.tun = TRUE]
               /\ g' = [g EXCEPT !.tunOK = TRUE, !.tunCalls = @ + 1, !.calls = @ + 1]
          ELSE /\ UNCHANGED <<device, host>>
               /\ g' = [g EXCEPT !.tunCalls = @ + 1, !.calls = @ + 1]
    /\ UNCHANGED <<envVars, log, anchor, anchorCtx, portal, gateway, iface,
                   bypassRoutes, ipForwardEnabled, once, pc, loc, exitCode, exitBy>>

\* CloseTUN: if c.device != nil { c.device.Close() }; c.device keeps its value
T_CloseTUN ==
    /\ DeviceClientReady
    /\ IF device # "nil"
       THEN /\ device' = "closed"
            /\ host' = [host EXCEPT !.tun = FALSE]
            /\ g' = [g EXCEPT !.closes = @ + 1, !.calls = @ + 1]
       ELSE /\ UNCHANGED <<device, host>>
            /\ g' = [g EXCEPT !.calls = @ + 1]
    /\ UNCHANGED <<envVars, log, anchor, anchorCtx, portal, gateway, iface,
                   bypassRoutes, ipForwardEnabled, once, pc, loc, exitCode, exitBy>>

T_Stop ==
    /\ DeviceClientReady
    /\ Goto("api", "s_enter")
    /\ g' = [g EXCEPT !.calls = @ + 1]
    /\ UNCHANGED <<envVars, host, log, anchor, anchorCtx, device, portal, gateway,
                   iface, bypassRoutes, ipForwardEnabled, once, loc, exitCode, exitBy>>

NextDevice ==
    \/ T_CreateTUN \/ T_CloseTUN \/ T_Stop
    \/ S_Enter("api") \/ S_Anchor("api") \/ S_Nil("api") \/ S_Clean("api")
    \/ S_Remove("api") \/ S_Close("api")

SpecDevice == InitDevice /\ [][NextDevice]_vars

(***************************************************************************)
(* The relay loops by themselves, one iteration at a time, on the data     *)
(* their reads return                                                       *)
(***************************************************************************)
lifeVars == <<platform, cliPortal, veilHost, metric0, fwd0, net, routeOut, host, log, anchor,
              anchorCtx, device, portal, gateway, iface, bypassRoutes,
              ipForwardEnabled, once, pc, loc, exitCode, exitBy, g>>

InitRelay ==
    /\ platform \in Platforms
    /\ cliPortal = FALSE
    /\ veilHost = ""
    /\ metric0 = 0
    /\ fwd0 = FALSE
    /\ net = "reliable"
    /\ relay = NewRelay
    /\ routeOut = <<>>
    /\ NewConflux(platform, metric0, fwd0)
    /\ pc = [t \in Threads |-> CASE t = "ingress" -> "i_read"
                                  [] t = "egress"  -> "e_read"
                                  [] OTHER         -> "idle"]

\* the darwin Read wrapper returns no error
AnchorReadErrors(p) == IF p = "darwin" THEN {FALSE} ELSE BOOLEAN

\* one iteration of ingress past the select: read a batch from the anchor,
\* put the header in front of every datagram, write the batch to the device
IngressIterationWritesOnError(r, err, batch) ==
    LET n    == IF err THEN Len(r.devWrite.from) ELSE Len(batch)
        bufs == IF err THEN r.inBufs ELSE IngressBody(AnchorRead(r.inBufs, batch), n)
    IN  [r EXCEPT
           !.inBufs = bufs,
           !.devWrite = IF n > 0 \/ WritesEmpty(platform)
                        THEN [called |-> TRUE, bufs |-> Prefix(bufs, n),
                              arg |-> <<HeaderLen>>,
                              from |-> IF err THEN r.devWrite.from ELSE batch]
                        ELSE NoWrite]

\* the body of the default case of ingress: the relay after an iteration
\* whose read failed (err) or returned the datagrams of batch
IngressIteration(r, err, batch) ==
    IF err
    THEN [r EXCEPT !.devWrite = NoWrite]
    ELSE LET n    == Len(batch)
             bufs == IngressBody(AnchorRead(r.inBufs, batch), n)
         IN  [r EXCEPT
                !.inBufs = bufs,
                !.devWrite = IF n > 0 \/ WritesEmpty(platform)
                             THEN [called |-> TRUE, bufs |-> Prefix(bufs, n),
                                   arg |-> <<HeaderLen>>, from |-> batch]
                             ELSE NoWrite]

\* the body of the default case of egress, likewise
EgressIteration(r, err, batch) ==
    IF err
    THEN [r EXCEPT !.anchorWrite = NoWrite]
    ELSE LET n     == Len(batch)
             bufs  == DeviceReadBufs(r.egBufs, batch)
             sizes == DeviceReadSizes(r.egSizes, batch)
         IN  [r EXCEPT
                !.egBufs = bufs,
                !.egSizes = sizes,
                !.anchorWrite = IF n > 0 \/ WritesEmpty(platform)
                                THEN [called |-> TRUE, bufs |-> Prefix(bufs, n),
                                      arg |-> Prefix(sizes, n), from |-> batch]
                                ELSE NoWrite]

R_Ingress ==
    /\ pc["ingress"] = "i_read"
    /\ \E err \in AnchorReadErrors(platform) :
          IF err
          THEN relay' = IngressIteration(relay, TRUE, <<>>)
          ELSE \E batch \in Batches(0) : relay' = IngressIteration(relay, FALSE, batch)
    /\ UNCHANGED lifeVars

\* one iteration of egress past the select: read a batch from the device,
\* hand it to the anchor with its sizes
R_Egress ==
    /\ pc["egress"] = "e_read"
    /\ \E err \in BOOLEAN :
          IF err
          THEN relay' = EgressIteration(relay, TRUE, <<>>)
          ELSE \E batch \in Batches(1) : relay' = EgressIteration(relay, FALSE, batch)
    /\ UNCHANGED lifeVars

SpecIngress == InitRelay /\ [][R_Ingress]_vars

SpecEgress == InitRelay /\ [][R_Egress]_vars

(***************************************************************************)
(* Both relay loops over a few iterations, on numbered datagrams, with     *)
(* what each direction has read and written so far                          *)
(***************************************************************************)
\* how many iterations the two loops run in all
MaxRounds == 4

\* the s-th datagram of a direction: every byte is s, the length varies with s
SerialDatagram(s) == [k \in 1..(1 + (s % Mtu)) |-> s]

\* a batch of n datagrams following the k datagrams read before
SerialBatch(k, n) == [i \in 1..n |-> SerialDatagram(k + i)]

\* the datagrams a device write hands over: each buffer from the offset on
IngressPayloads(w) ==
    [i \in 1..Len(w.bufs) |-> SubSeq(w.bufs[i], w.arg[1] + 1, Len(w.bufs[i]))]

\* the datagrams an anchor write hands over: sizes[i] bytes of each buffer
EgressPayloads(w) == [i \in 1..Len(w.bufs) |-> SubSeq(w.bufs[i], 1, w.arg[i])]

\* the relay r after an iteration of the loop dir, with its traffic noted
O_Step(r, dir, err, batch) ==
    IF dir = "ingress"
    THEN [r EXCEPT !.seen.inErr = err,
                   !.seen.inGot = IF err THEN @ ELSE @ \o batch,
                   !.seen.inPut = IF r.devWrite.called THEN @ \o IngressPayloads(r.devWrite) ELSE @,
                   !.seen.rounds = @ + 1]
    ELSE [r EXCEPT !.seen.egErr = err,
                   !.seen.egGot = IF err THEN @ ELSE @ \o batch,
                   !.seen.egPut = IF r.anchorWrite.called THEN @ \o EgressPayloads(r.anchorWrite) ELSE @,
                   !.seen.rounds = @ + 1]

O_Ingress ==
    /\ pc["ingress"] = "i_read" /\ relay.seen.rounds < MaxRounds
    /\ \E err \in AnchorReadErrors(platform) :
          IF err
          THEN relay' = O_Step(IngressIteration(relay, TRUE, <<>>), "ingress", TRUE, <<>>)
          ELSE \E n \in 0..BatchSize :
                 LET batch == SerialBatch(Len(relay.seen.inGot), n)
                 IN  relay' = O_Step(IngressIteration(relay, FALSE, batch), "ingress", FALSE, batch)
    /\ UNCHANGED lifeVars

O_Egress ==
    /\ pc["egress"] = "e_read" /\ relay.seen.rounds < MaxRounds
    /\ \E err \in BOOLEAN :
          IF err
          THEN relay' = O_Step(EgressIteration(relay, TRUE, <<>>), "egress", TRUE, <<>>)
          ELSE \E n \in 0..BatchSize :
                 LET batch == SerialBatch(Len(relay.seen.egGot), n)
                 IN  relay' = O_Step(EgressIteration(relay, FALSE, batch), "egress", FALSE, batch)
    /\ UNCHANGED lifeVars

NextOrder == O_Ingress \/ O_Egress

SpecOrder == InitRelay /\ [][NextOrder]_vars

(***************************************************************************)
(* DetectHostGateway on the text of a route listing                         *)
(***************************************************************************)
InitDetect ==
    /\ platform \in Platforms
    /\ cliPortal = FALSE
    /\ veilHost = ""
    /\ metric0 = 0
    /\ fwd0 = FALSE
    /\ net = "reliable"
    /\ relay = NoRelay
    /\ routeOut \in Listings(platform)
    /\ NewConflux(platform, metric0, fwd0)
    /\ pc = [t \in Threads |-> IF t = "main" THEN "detect" ELSE "idle"]

\* DetectHostGateway once the listing command has printed routeOut
D_Parse ==
    /\ pc["main"] = "detect"
    /\ LET r == ParseRouteOutput(platform, routeOut, gateway, iface)
       IN  /\ gateway' = r.gateway
           /\ iface' = r.iface
           /\ loc' = [loc EXCEPT !.ret = IF r.err THEN "err" ELSE "ok"]
    /\ log' = Append(log, [c |-> Cmd("route-show", "default", "", "", 0), ok |-> TRUE])
    /\ Goto("main", "detected")
    /\ UNCHANGED <<envVars, host, anchor, anchorCtx, device, portal, bypassRoutes,
                   ipForwardEnabled, once, exitCode, exitBy, g>>

SpecDetect == InitDetect /\ [][D_Parse]_vars

(***************************************************************************)
(* Start alone, from its entry to its return, with a resolver that may fail *)
(* or answer with one address, and commands that may fail                   *)
(***************************************************************************)
InitStart ==
    /\ Environment
    /\ net = "single"
    /\ relay = NoRelay
    /\ routeOut = <<>>
    /\ NewConflux(platform, metric0, fwd0)
    /\ pc = [t \in Threads |-> IF t = "main" THEN "start" ELSE "idle"]

SpecStart == InitStart /\ [][StartSteps]_vars

(***************************************************************************)
(* Properties                                                               *)
(***************************************************************************)
\* how many times a command was issued
Issued(op, dst) == Cardinality({k \in 1..Len(log) : log[k].c.op = op /\ log[k].c.dst = dst})

\* the same for one value of the command's numeric argument
IssuedWith(op, dst, m) ==
    Cardinality({k \in 1..Len(log) : log[k].c.op = op /\ log[k].c.dst = dst /\ log[k].c.metric = m})

AllSucceeded == \A k \in 1..Len(log) : log[k].ok

DefaultRoutes == {r \in host.routes : r.dst = "default"}

\* C1: once Stop was invoked two or more times after a successful Start and
\* the guarded function is over, the anchor was stopped once, the host
\* configuration was retracted once, the bypass routes were removed once and
\* the device was closed once.
C1_TeardownExactlyOnce ==
    (g.startOK /\ g.stopCalls >= 2 /\ once = "done")
        => /\ g.anchorStops = 1
           /\ g.cleanDone = 1
           /\ g.removeDone = 1
           /\ g.closes = 1

\* C2: after RemoveBypassRoutes, in which no delete failed, every address
\* AddBypassRoutes issued a route-add for had a route-delete issued.
C2_EveryAddHasDelete ==
    (g.lastCall = "remove" /\ ~g.delFailed /\ "" \notin g.gwUsed)
        => \A a \in g.addIssued : g.delIssued[a] >= 1

\* C3: after AddBypassRoutes then RemoveBypassRoutes, every hostname having
\* resolved to an IPv4 address and every command having succeeded, the table
\* c.bypassRoutes is empty and exactly one delete was issued per installed
\* address.
C3_TableEmptyAfterTeardown ==
    (g.lastCall = "remove" /\ g.addCalls = 1 /\ "" \notin g.gwUsed
        /\ ~g.unresolved /\ ~g.addFailed /\ ~g.delFailed)
        => /\ Recorded(bypassRoutes) = {}
           /\ \A a \in AllAddrs : g.delIssued[a] = IF a \in g.addOk THEN 1 ELSE 0

\* C4: an address whose route-add failed is not recorded, and no delete is
\* ever issued for it.
C4_FailedAddNotRecorded ==
    "" \notin g.gwUsed
        => /\ \A h \in Recorded(bypassRoutes) : bypassRoutes[h] \in g.addOk
           /\ \A a \in AllAddrs : g.delIssued[a] > 0 => a \in g.addOk

\* C5: when RemoveBypassRoutes has returned, a delete was issued for every
\* recorded entry, whichever deletes failed.
C5_DeleteAttemptedForAll ==
    (g.lastCall = "remove" /\ g.removeDone = 1 /\ "" \notin g.gwUsed)
        => \A h \in Recorded(bypassRoutes) : g.delIssued[bypassRoutes[h]] >= 1

\* C6: in Rift mode, after a successful ConfigHost and a completed
\* CleanHostConfiguraions with every command succeeding, the host has its
\* original default route again: same gateway, interface and metric.
C6_RiftRestoresDefaultRoute ==
    (~cliPortal /\ g.configOK /\ g.cleanDone = 1 /\ AllSucceeded)
        => DefaultRoutes = {Route("default", HostGw, HostIf, metric0)}

\* C7: in Portal mode on linux, after a successful ConfigHost and a completed
\* CleanHostConfiguraions whose commands took effect, host IP forwarding has
\* the value it had before ConfigHost (it was enabled by apply and disabled
\* by retract if it was off, and never written if it was on), and each of
\* the three FORWARD/NAT rules was added once and removed once.
C7_PortalRestoresForwarding ==
    (platform = "linux" /\ cliPortal /\ g.configOK /\ g.cleanDone = 1 /\ ~g.cleanFail)
        => /\ host.fwd = fwd0
           /\ ipForwardEnabled = fwd0
           /\ IssuedWith("sysctl-set", "ip_forward", 1) = (IF fwd0 THEN 0 ELSE 1)
           /\ IssuedWith("sysctl-set", "ip_forward", 0) = (IF fwd0 THEN 0 ELSE 1)
           /\ \A r \in FwRules : /\ Issued("ipt-add", r) = 1
                                 /\ Issued("ipt-del", r) = 1
                                 /\ host.fw[r] = 0

C7_Witness ==
    /\ platform = "linux" /\ cliPortal /\ ~fwd0
    /\ g.configOK /\ g.cleanDone = 1 /\ ~g.cleanFail
    /\ IssuedWith("sysctl-set", "ip_forward", 0) = 1

\* C8: on darwin and windows, Start with portal=true returns an error having
\* executed no command and changed nothing: no gateway detected, no bypass
\* route, no device, anchor not started, no relay loop or watcher.
C8_PortalRefusedBeforeAnyEffect ==
    (platform # "linux" /\ cliPortal /\ g.stopCalls = 0)
        => /\ log = <<>>
           /\ pc["main"] \in {"start", "startErr", "dead"}
           /\ exitCode \in {-1, 1}
           /\ host = [routes |-> {Route("default", HostGw, HostIf, metric0)}, bypass |-> {},
                      fwd |-> fwd0, fw |-> [r \in FwRules |-> 0], tun |-> FALSE]
           /\ gateway = "" /\ iface = ""
           /\ Recorded(bypassRoutes) = {} /\ g.addIssued = {}
           /\ device = "nil"
           /\ anchorCtx = "new"
           /\ g.started = {} /\ ~g.devIO

C8_Witness ==
    platform # "linux" /\ cliPortal /\ exitBy = "startErr" /\ exitCode = 1 /\ g.stopCalls = 0

\* C9: no read or write of the TUN device, and no relay loop, before
\* CreateTUN succeeded, the anchor started and gave its CIDR, and ConfigHost
\* returned nil.
C9_NoDeviceIOBeforeConfigured ==
    (g.devIO \/ g.started # {} \/ pc["ingress"] \notin {"idle", "dead"}
             \/ pc["egress"] \notin {"idle", "dead"})
        => /\ g.tunOK /\ device # "nil"
           /\ anchorCtx # "new"
           /\ g.cidrOK
           /\ g.configOK

C9_Witness == g.devIO /\ g.configOK /\ pc["ingress"] = "i_top"

\* C10: when the anchor terminated on its own after a successful Start and
\* the watcher ended the process, the teardown of Stop was performed before:
\* host configuration retracted, bypass routes removed, device closed.
C10_AnchorLossTearsDown ==
    (g.startOK /\ g.anchorDied /\ exitBy = "watcher")
        => /\ exitCode # 0
           /\ g.cleanDone = 1
           /\ g.removeDone = 1
           /\ g.closes = 1

\* C11: when a shutdown signal arrived after a successful Start, the anchor
\* did not die on its own, and the function Stop guards ran to its end (the
\* device was closed) before the ten-second timer fired, the process, unless
\* it crashed on a nil anchor, ends with exit code 0.
C11_GracefulStopExitsZero ==
    (g.signalled /\ g.startOK /\ ~g.anchorDied /\ g.closes = 1
        /\ ~Alive /\ exitBy \notin {"timeout", "panic"})
        => exitCode = 0

\* C12: when the ten-second timer fires before the function Stop guards is
\* over, the process ends with a non-zero exit code.
C12_TimeoutExitsNonZero ==
    (exitBy = "timeout" /\ once # "done") => exitCode # 0

\* the one detection of Start failed: the listing was run and no gateway stored
DetectFailed == Issued("route-show", "default") >= 1 /\ gateway = ""

\* C13: once DetectHostGateway has failed in Start, the listing command was
\* run exactly once and is the only command issued, no bypass route was added
\* or recorded, no TUN device exists, the anchor was not started, no relay
\* loop runs, and Start is returning (or has returned) its error: exit code 1.
C13_DetectFailureAbortsStart ==
    DetectFailed
        => /\ Len(log) = 1
           /\ g.addIssued = {} /\ g.lookups = {} /\ Recorded(bypassRoutes) = {}
           /\ host.bypass = {}
           /\ device = "nil" /\ g.tunCalls = 0 /\ ~host.tun
           /\ anchorCtx = "new"
           /\ g.started = {} /\ ~g.devIO
           /\ pc["main"] \in {"startErr", "dead"}
           /\ exitCode \in {-1, 1}

C13_Witness == DetectFailed /\ exitBy = "startErr" /\ exitCode = 1

\* C14: while only Start has run, a failed command of ConfigHost is the last
\* command issued, ConfigHost has returned an error and no relay loop started.
C14_ConfigFailureAborts ==
    g.cleanCalls = 0
        => \A k \in 1..Len(log) :
              (log[k].c.op # "route-show" /\ ~log[k].ok)
                  => k = Len(log) /\ ~g.configOK /\ g.started = {}

\* C20: when AddBypassRoutes has returned inside Start, every hostname of the
\* list was looked up, a hostname whose lookup failed has no entry, every
\* hostname that resolved to an IPv4 address has an entry for an address a
\* route-add was issued for, and Start is about to create the TUN device or
\* has attempted it.
C20_DnsFailureSkipsOneHost ==
    (g.lastCall = "add" /\ g.dnsErr # {})
        => /\ g.lookups = {BypassHosts(platform)[i] : i \in DOMAIN BypassHosts(platform)}
           /\ \A h \in g.dnsErr : bypassRoutes[h] = NoAddr
           /\ \A h \in g.resolved4 :
                 bypassRoutes[h] # NoAddr /\ bypassRoutes[h] \in g.addIssued
           /\ (pc["main"] = "createTUN" \/ g.tunCalls = 1)

C20_Witness ==
    /\ g.dnsErr # {} /\ g.resolved4 # {} /\ g.tunOK
    /\ g.lastCall = "add"

\* C15: once the function Stop guards is over after a successful Start (and
\* did not crash on a nil anchor), CleanHostConfiguraions went through all of
\* its retract steps, the bypass routes were removed and the device was closed.
C15_CleanFailureDoesNotSkipSteps ==
    (g.startOK /\ once = "done" /\ exitBy # "panic")
        => g.cleanDone = 1 /\ g.removeDone = 1 /\ g.closes = 1

\* C16: over any sequence of CloseTUN and Stop calls on one conflux, Close is
\* invoked on the TUN device at most once.
C16_DeviceClosedAtMostOnce == g.closes <= 1

\* C17: the device write of an ingress iteration gets one buffer per datagram
\* read, in order, each of 16 more bytes than its datagram, holding the
\* datagram unchanged from offset 16, and the write offset is 16.
C17_IngressPrependsHeader ==
    relay.devWrite.called
        => LET w == relay.devWrite
           IN  /\ w.arg = <<16>>
               /\ Len(w.bufs) = Len(w.from)
               /\ \A i \in 1..Len(w.from) :
                     /\ Len(w.bufs[i]) = 16 + Len(w.from[i])
                     /\ \A k \in 1..Len(w.from[i]) : w.bufs[i][16 + k] = w.from[i][k]

C17_Witness ==
    /\ relay.devWrite.called
    /\ Len(relay.devWrite.from) = BatchSize
    /\ Len(relay.devWrite.from[1]) = Mtu
    /\ Len(relay.devWrite.from[2]) = 0

\* C18: the anchor write of an egress iteration gets one buffer and one size
\* per datagram read, in order; each size is the datagram's length and the
\* first size bytes of the buffer are the datagram, with nothing in front.
C18_EgressForwardsBytesRead ==
    relay.anchorWrite.called
        => LET w == relay.anchorWrite
           IN  /\ Len(w.bufs) = Len(w.from)
               /\ Len(w.arg) = Len(w.from)
               /\ \A i \in 1..Len(w.from) :
                     /\ w.arg[i] = Len(w.from[i])
                     /\ SubSeq(w.bufs[i], 1, w.arg[i]) = w.from[i]

C18_Witness ==
    /\ relay.anchorWrite.called
    /\ Len(relay.anchorWrite.from) = 1
    /\ Len(relay.anchorWrite.from[1]) = 1
    /\ relay.egSizes[1] = 1 /\ relay.egSizes[2] = Mtu
    /\ relay.egBufs[1] # Datagram(Mtu, 0) /\ relay.egBufs[1] # Datagram(Mtu, 1)

\* a default-route line whatever whitespace surrounds it
IsDefaultLine(line) ==
    CASE platform = "linux"  -> HasPrefix(TrimSpace(line), "default")
      [] platform = "darwin" -> HasPrefix(TrimSpace(line), "gateway:")
      [] OTHER               -> IsDefaultWindows(line)

IsInterfaceLine(line) ==
    IF platform = "darwin" THEN HasPrefix(TrimSpace(line), "interface:")
    ELSE IsDefaultLine(line)

\* the gateway and the interface the first default-route line of the listing
\* names (on darwin they stand on a line each)
ExpectedGateway ==
    LET f == Fields(FirstLine(routeOut, {i \in 1..Len(routeOut) : IsDefaultLine(routeOut[i])}))
    IN  CASE platform = "linux"  -> FieldAfter(f, "via")
          [] platform = "darwin" -> f[2]
          [] OTHER               -> f[3]

ExpectedIface ==
    LET f == Fields(FirstLine(routeOut, {i \in 1..Len(routeOut) : IsInterfaceLine(routeOut[i])}))
    IN  CASE platform = "linux"  -> FieldAfter(f, "dev")
          [] platform = "darwin" -> f[2]
          [] OTHER               -> f[4]

HasDefaultLine ==
    /\ \E i \in 1..Len(routeOut) : IsDefaultLine(routeOut[i])
    /\ \E i \in 1..Len(routeOut) : IsInterfaceLine(routeOut[i])

\* C19: DetectHostGateway returns an error when the listing has no
\* default-route line, and otherwise stores the gateway and the interface of
\* the first one, whatever unrelated lines precede it and whatever whitespace
\* surrounds it.
C19_DetectParsesFirstDefaultLine ==
    pc["main"] = "detected"
        => IF HasDefaultLine
           THEN loc.ret = "ok" /\ gateway = ExpectedGateway /\ iface = ExpectedIface
           ELSE loc.ret = "err"

\* C21: once a step of Start has failed (gateway detection, TUN creation,
\* anchor start, CIDR retrieval or parsing, ConfigHost), Start is returning or
\* has returned its error, and no relay loop and no liveness watcher was
\* started or touches the device; whenever one was started, no step failed.
C21_FailedStartLaunchesNothing ==
    /\ g.failedStep # ""
          => /\ pc["main"] \in {"startErr", "dead"}
             /\ exitBy \in {"none", "startErr"} /\ exitCode \in {-1, 1}
             /\ g.started = {} /\ ~g.startOK /\ ~g.devIO
             /\ \A t \in {"ingress", "egress", "watcher"} : pc[t] \in {"idle", "dead"}
    /\ g.started # {} => g.failedStep = ""

C21_Witness ==
    g.failedStep = "configHost" /\ g.cidrOK /\ exitBy = "startErr" /\ exitCode = 1

\* a goroutine is inside the function Stop hands to once.Do
InStop(t) == pc[t] \in {"s_anchor", "s_nil", "s_clean", "s_remove", "s_close"}

FirstAt(at) == IF at = {} THEN 0 ELSE CHOOSE i \in at : \A j \in at : i <= j

\* the positions of the commands op on destination dst
Positions(op, dst) == {k \in 1..Len(log) : log[k].c.op = op /\ log[k].c.dst = dst}

\* C23: when a Rift-mode ConfigHost has returned nil with a control-plane host
\* set, its commands were issued in this order: route to the control-plane
\* host via the detected gateway, address assignment on the virtual interface,
\* interface up, delete of the original default route, re-add of that route
\* via the gateway at a de-prioritized metric, add of the default route
\* through the virtual interface.
C23_RiftConfigOrder ==
    (g.configOK /\ ~portal /\ veilHost # "")
        => LET veilAdd == FirstAt({k \in Positions("route-add", veilHost) : log[k].c.via = gateway})
               addr    == FirstAt(Positions("addr-add", TunIP))
               up      == FirstAt(Positions("link-up", ""))
               del     == FirstAt(Positions("route-del", "default"))
               reAdd   == FirstAt({k \in Positions("route-add", "default") :
                                     log[k].c.via = gateway /\ log[k].c.metric > 0})
               tunAdd  == FirstAt({k \in Positions("route-add", "default") : log[k].c.dev = TUN})
           IN  /\ 0 < veilAdd /\ veilAdd < addr /\ addr < up /\ up < del
               /\ del < reAdd /\ reAdd < tunAdd

\* ConfigHost has read the forwarding value: sysctl -n net.ipv4.ip_forward
\* returned without error
ForwardingRead == \E k \in 1..Len(log) : log[k].c.op = "sysctl-read" /\ log[k].ok

\* C24: in Portal mode on linux, ConfigHost issues the command that enables IP
\* forwarding exactly when it has read the forwarding value and that value was
\* not enabled, and once it has read the value c.ipForwardEnabled equals it.
C24_EnableOnlyIfDisabled ==
    (platform = "linux" /\ portal)
        => /\ IssuedWith("sysctl-set", "ip_forward", 1) = (IF ForwardingRead /\ ~fwd0 THEN 1 ELSE 0)
           /\ ForwardingRead => ipForwardEnabled = fwd0
           /\ ~ForwardingRead => ~ipForwardEnabled

C24_Witness ==
    /\ platform = "linux" /\ portal /\ ~fwd0 /\ ForwardingRead /\ g.configOK
    /\ IssuedWith("sysctl-set", "ip_forward", 1) = 1
    /\ host.fwd /\ ~ipForwardEnabled

\* C25: in Portal mode on linux, when host IP forwarding was enabled before
\* Start and Start got as far as ConfigHost, the command that disables IP
\* forwarding is never issued, whether ConfigHost succeeded or failed at any
\* of its commands and whatever Stop did afterwards.
C25_NeverDisablesPriorForwarding ==
    (platform = "linux" /\ cliPortal /\ fwd0 /\ g.cidrOK)
        => IssuedWith("sysctl-set", "ip_forward", 0) = 0

\* C26: once the function Stop guards is over after a successful Start in
\* which the anchor reported a control-plane host, a route-delete for that
\* host via the detected gateway was issued; when the anchor reports no
\* control-plane host, the only routes ConfigHost and CleanHostConfiguraions
\* add or delete are default routes.
C26_ControlHostRouteRetracted ==
    /\ (g.startOK /\ veilHost # "" /\ once = "done")
          => \E k \in Positions("route-del", veilHost) : log[k].c.via = gateway
    /\ veilHost = ""
          => \A k \in 1..Len(log) :
                log[k].c.op \in {"route-add", "route-del"} => log[k].c.dst = "default"

\* C27: once Stop has been invoked after a successful Start, a relay loop ends
\* by finding the cancellation signal at the top of an iteration, after at
\* most the read it was in: no relay loop ends in a panic of the process.
C27_LoopsEndOnCancellation ==
    (g.startOK /\ g.stopCalls >= 1) => ~g.loopPanic

\* C28: in both relay loops, an iteration whose read returned an error makes
\* no write and leaves the loop at its next read; nothing read before is
\* written again or lost: the datagrams written so far are still exactly the
\* datagrams read so far.
C28_ReadErrorSkipsIteration ==
    /\ relay.seen.inErr
          => /\ ~relay.devWrite.called
             /\ relay.seen.inPut = relay.seen.inGot
             /\ pc["ingress"] = "i_read"
    /\ relay.seen.egErr
          => /\ ~relay.anchorWrite.called
             /\ relay.seen.egPut = relay.seen.egGot
             /\ pc["egress"] = "e_read"

C28_Witness ==
    /\ relay.seen.inErr /\ Len(relay.seen.inPut) >= 1
    /\ relay.seen.egErr /\ Len(relay.seen.egPut) >= 1

\* the datagrams of q are in the order of their numbers
InReadOrder(q) == \A i, j \in DOMAIN q : i < j => q[i][1] < q[j][1]

\* C29: in each direction the datagrams are written in the order they were
\* read, within a batch and from one batch to the next, and every datagram
\* written is one that was read.
C29_WrittenInReadOrder ==
    /\ InReadOrder(relay.seen.inPut)
    /\ InReadOrder(relay.seen.egPut)
    /\ \A i \in DOMAIN relay.seen.inPut : \E j \in DOMAIN relay.seen.inGot :
          relay.seen.inPut[i] = relay.seen.inGot[j]
    /\ \A i \in DOMAIN relay.seen.egPut : \E j \in DOMAIN relay.seen.egGot :
          relay.seen.egPut[i] = relay.seen.egGot[j]

C29_Witness ==
    /\ Len(relay.seen.inPut) = BatchSize + 1
    /\ Len(relay.seen.egPut) = 2
    /\ relay.seen.rounds = MaxRounds

\* the route and firewall commands issued so far name the stored gateway and
\* interface wherever they name a gateway or a host interface
CommandsUseStored ==
    /\ \A k \in 1..Len(log) :
          /\ log[k].c.via \in {"", TunIP, gateway}
          /\ log[k].c.dev \in {"", TUN, iface}
          /\ (log[k].c.dst = VeilHostAddr /\ log[k].c.op \in {"route-add", "route-del"})
                => log[k].c.via = gateway
    /\ g.gwUsed \subseteq {gateway}

\* C30: once DetectHostGateway has stored a gateway and an interface, no step
\* of setup, relay or teardown changes them, and every route command issued
\* names those stored values.
C30_GatewayWrittenOnce ==
    /\ [](gateway # "" => CommandsUseStored)
    /\ [][gateway # "" => (gateway' = gateway /\ iface' = iface)]_vars

C30_Witness ==
    /\ gateway # "" /\ iface # "" /\ g.startOK /\ once = "done"
    /\ \E k \in Positions("route-del", VeilHostAddr) : log[k].c.via = gateway
    /\ g.gwUsed = {gateway}

\* the commands that read or write host IP forwarding or a FORWARD/NAT rule
ForwardingOps == {"ipt-add", "ipt-del", "sysctl-read", "sysctl-set"}

\* C31: in Rift mode no command of ConfigHost or CleanHostConfiguraions reads
\* or writes host IP forwarding or a FORWARD/NAT firewall rule: none is in the
\* command log, the host's forwarding flag and rules are as before Start, and
\* c.ipForwardEnabled keeps the value of construction (false).
C31_RiftLeavesForwardingAlone ==
    ~cliPortal
        => /\ \A k \in 1..Len(log) : log[k].c.op \notin ForwardingOps
           /\ ipForwardEnabled = FALSE
           /\ host.fwd = fwd0
           /\ \A r \in FwRules : host.fw[r] = 0

C31_Witness ==
    /\ ~cliPortal /\ platform = "linux" /\ fwd0
    /\ g.configOK /\ g.cleanDone = 1
    /\ Issued("route-add", "default") >= 3
    /\ ~ipForwardEnabled

\* Start has returned an error from a step that precedes ConfigHost
StartFailedEarly == g.failedStep \in {"detect", "createTUN", "startAnchor", "getCIDR"}

\* C32: when Stop is called after Start failed before ConfigHost ran, Stop
\* does not crash, and it issues no command that deletes or adds a default
\* route of the host (other than one through the TUN interface) and no
\* firewall or forwarding command.
C32_StopAfterFailedStartRetractsNothing ==
    (StartFailedEarly /\ g.stopCalls >= 1)
        => /\ exitBy # "panic"
           /\ \A k \in 1..Len(log) :
                 /\ ~(log[k].c.op \in {"route-add", "route-del"}
                        /\ log[k].c.dst = "default" /\ log[k].c.dev # TUN)
                 /\ log[k].c.op \notin ForwardingOps

\* C33: in every state after a Rift-mode ConfigHost returned nil and before
\* Stop retracts the configuration, the routing table holds a default route
\* through the TUN interface and the original default route via the detected
\* gateway and interface, the latter with a strictly higher metric.
C33_OriginalRouteDemoted ==
    (~cliPortal /\ g.configOK /\ g.cleanCalls = 0)
        => \E t, o \in DefaultRoutes :
              /\ t.dev = TUN
              /\ o.via = gateway /\ o.dev = iface
              /\ o.metric > t.metric

\* C34: no relay loop reads from or writes to the TUN device once Stop has
\* closed it.
C34_NoDeviceIOAfterClose == ~g.ioAfterClose

\* C35: on linux, after a successful Start, no access to c.anchor (Ctx.Done,
\* Read, Write, GetVeilHost) by a relay loop, the watcher or
\* CleanHostConfiguraions is made while the field is nil.
C35_AnchorNeverNilWhenUsed == (platform = "linux" /\ g.startOK) => ~g.nilDeref

\* C36: when the process has ended after a signal-triggered Stop that followed
\* a successful Start (the anchor did not die on its own, no client called
\* Stop, the ten-second timer did not fire, nothing crashed on a nil anchor),
\* Stop had attempted the retraction of the host configuration, removed the
\* bypass routes and closed the device first.
C36_ExitWaitsForTeardown ==
    (g.signalled /\ g.startOK /\ ~g.anchorDied /\ g.calls = 0
        /\ ~Alive /\ exitBy \notin {"timeout", "panic"})
        => /\ g.cleanCalls = 1
           /\ g.removeDone = 1
           /\ g.closes = 1

====
